---- MODULE Spec2Model ----
(***************************************************************************)
(* CapEx 2026 dashboard (CapEx_2026.py): the loader/normaliser load_data,  *)
(* the checkbox filter and the aggregates the script renders.              *)
(*                                                                         *)
(* Representation.  A Python str is a sequence of one-character strings;   *)
(* a spreadsheet cell is a record tagged by kind: a str cell, a numeric    *)
(* cell or a missing cell (NaN).  Numbers are fixed point: the integer n   *)
(* stands for n / Scale, which is exact for every literal the cell         *)
(* alphabets below can spell.  The Thai header names of column_map are     *)
(* written in ASCII transliteration (string literals are ASCII only).      *)
(***************************************************************************)
EXTENDS Integers, Sequences, FiniteSets, TLC

VARIABLES pc, xlsx, cache, unticked, screen, view, origin, val, irr

vars == <<pc, xlsx, cache, unticked, screen, view, origin, val, irr>>

(* Bounds of the model *)
MaxRows == 2
MaxLen == 4

RECURSIVE Pow10(_)
Pow10(k) == IF k = 0 THEN 1 ELSE 10 * Pow10(k - 1)

\* fixed-point unit: a literal of at most MaxLen characters has fewer than
\* MaxLen fractional digits
Scale == Pow10(MaxLen - 1)

(***************************************************************************)
(* Cells and Python values                                                 *)
(***************************************************************************)
NaN == [kind |-> "nan"]
None == [kind |-> "none"]
Str(s) == [kind |-> "str", s |-> s]
Num(n) == [kind |-> "num", n |-> n]

\* nothing yet: an empty cache, a blank page, no result
Idle == [kind |-> "idle"]

\* pd.isna / pd.notnull on a scalar
isna(v) == v.kind \in {"nan", "none"}
notnull(v) == ~isna(v)

(***************************************************************************)
(* Characters                                                              *)
(***************************************************************************)
CodeTable ==
  << <<" ", 32>>, <<"%", 37>>, <<"+", 43>>, <<"-", 45>>, <<".", 46>>,
     <<"0", 48>>, <<"1", 49>>, <<"2", 50>>, <<"3", 51>>, <<"4", 52>>,
     <<"5", 53>>, <<"6", 54>>, <<"7", 55>>, <<"8", 56>>, <<"9", 57>>,
     <<"A", 65>>, <<"B", 66>>, <<"H", 72>>, <<"I", 73>>, <<"R", 82>>,
     <<"T", 84>>, <<"a", 97>>, <<"n", 110>>, <<"x", 120>> >>

Chars == {CodeTable[i][1] : i \in DOMAIN CodeTable}

\* ord(c): the code point Python compares characters by
ord == [c \in Chars |-> (CHOOSE i \in DOMAIN CodeTable : CodeTable[i][1] = c)]

chr == [n \in 0..9 |-> CodeTable[6 + n][1]]

Digits == {chr[n] : n \in 0..9}

DigitVal(c) == CodeTable[ord[c]][2] - 48

isspace(c) == c = " "

(***************************************************************************)
(* str methods                                                             *)
(***************************************************************************)
RECURSIVE lstrip(_)
lstrip(s) == IF s # <<>> /\ isspace(Head(s)) THEN lstrip(Tail(s)) ELSE s

RECURSIVE rstrip(_)
rstrip(s) ==
  IF s # <<>> /\ isspace(s[Len(s)]) THEN rstrip(SubSeq(s, 1, Len(s) - 1)) ELSE s

\* str.strip()
strip(s) == rstrip(lstrip(s))

\* s < t in Python's order on str (lexicographic by code point)
RECURSIVE StrLess(_, _)
StrLess(s, t) ==
  IF t = <<>> THEN FALSE
  ELSE IF s = <<>> THEN TRUE
  ELSE IF Head(s) # Head(t) THEN CodeTable[ord[Head(s)]][2] < CodeTable[ord[Head(t)]][2]
  ELSE StrLess(Tail(s), Tail(t))

RECURSIVE NatDigits(_)
NatDigits(n) == IF n < 10 THEN <<chr[n]>> ELSE NatDigits(n \div 10) \o <<chr[n % 10]>>

RECURSIVE FracDigits(_, _)
\* the digits of f / unit after the point, without trailing zeros
FracDigits(f, unit) ==
  IF f = 0 THEN <<>>
  ELSE <<chr[(f * 10) \div unit]>> \o FracDigits((f * 10) % unit, unit)

\* str(val) of a numeric cell: an integral value reads as an int ("-3"),
\* any other as the shortest decimal ("12.5")
NumRepr(n) ==
  LET a == IF n < 0 THEN -n ELSE n
  IN  (IF n < 0 THEN <<"-">> ELSE <<>>)
      \o NatDigits(a \div Scale)
      \o (IF a % Scale = 0 THEN <<>> ELSE <<".">> \o FracDigits(a % Scale, Scale))

\* str(val)
ToStr(v) ==
  CASE v.kind = "str" -> v.s
    [] v.kind = "num" -> NumRepr(v.n)
    [] v.kind = "nan" -> <<"n", "a", "n">>

(***************************************************************************)
(* float(token) and pd.to_numeric(..., errors='coerce')                    *)
(***************************************************************************)
RECURSIVE DigitRunEnd(_, _)
\* the index just past the longest run of digits of s that starts at i
DigitRunEnd(s, i) ==
  IF i <= Len(s) /\ s[i] \in Digits THEN DigitRunEnd(s, i + 1) ELSE i

RECURSIVE DigitsVal(_)
DigitsVal(d) ==
  IF d = <<>> THEN 0 ELSE 10 * DigitsVal(SubSeq(d, 1, Len(d) - 1)) + DigitVal(d[Len(d)])

\* the value of sign, integer digits ip and fraction digits fp
Magnitude(negative, ip, fp) ==
  IF negative
    THEN -(DigitsVal(ip) * Scale + (DigitsVal(fp) * Scale) \div Pow10(Len(fp)))
    ELSE DigitsVal(ip) * Scale + (DigitsVal(fp) * Scale) \div Pow10(Len(fp))

\* s read as digits [. digits] from index i0 on, the integer digits ending
\* before i1 and the literal before i2
ParseParts(s, negative, i0, i1, i2) ==
  IF i2 = Len(s) + 1 /\ (i1 - i0) + (IF i2 > i1 THEN i2 - i1 - 1 ELSE 0) > 0
     /\ i2 - i1 - 1 < MaxLen
    THEN Num(Magnitude(negative, SubSeq(s, i0, i1 - 1), SubSeq(s, i1 + 1, i2 - 1)))
    ELSE NaN

ParseDigits(s, negative, i0, i1) ==
  ParseParts(s, negative, i0, i1,
             IF i1 <= Len(s) /\ s[i1] = "." THEN DigitRunEnd(s, i1 + 1) ELSE i1)

ParseSigned(s, signed) ==
  ParseDigits(s, signed /\ s[1] = "-", IF signed THEN 2 ELSE 1,
              DigitRunEnd(s, IF signed THEN 2 ELSE 1))

ParseStripped(s) == ParseSigned(s, s # <<>> /\ s[1] \in {"-", "+"})

\* A decimal literal [sign] digits* [. digits*] with at least one digit, as
\* float() and to_numeric read it (surrounding whitespace ignored); the
\* alphabets spell no exponent, "inf" or "nan" literal.
ParseFloat(t) == ParseStripped(strip(t))

\* pd.to_numeric(x, errors='coerce') on one element
to_numeric(v) ==
  CASE v.kind = "num" -> v
    [] v.kind = "str" -> ParseFloat(v.s)
    [] OTHER -> NaN

\* Series.fillna(0) on one element
fillna0(v) == IF isna(v) THEN Num(0) ELSE v

(***************************************************************************)
(* extract_irr: re.search(r"[-+]?\d*\.\d+|\d+", str(val))                  *)
(***************************************************************************)
\* first alternative [-+]?\d*\.\d+ tried at index i: the index just past the
\* match, or 0.  \d* is greedy and a digit cannot stand for the point, and
\* the sign cannot be given back (a sign is neither digit nor point), so
\* the only candidate is sign, longest digit run, point, longest digit run.
DecimalEnd(s, k, m) == IF k <= Len(s) /\ s[k] = "." /\ m > k + 1 THEN m ELSE 0

DecimalFrac(s, k) == DecimalEnd(s, k, DigitRunEnd(s, k + 1))

MatchDecimal(s, i) ==
  DecimalFrac(s, DigitRunEnd(s, IF i <= Len(s) /\ s[i] \in {"-", "+"} THEN i + 1 ELSE i))

\* second alternative \d+ tried at index i
IntegerEnd(i, m) == IF m > i THEN m ELSE 0

MatchInteger(s, i) == IntegerEnd(i, DigitRunEnd(s, i))

\* the alternation at index i: the first alternative that matches wins
FirstMatch(decimal, s, i) == IF decimal # 0 THEN decimal ELSE MatchInteger(s, i)

MatchAt(s, i) == FirstMatch(MatchDecimal(s, i), s, i)

RECURSIVE SearchFrom(_, _)

Found(s, i, m) == IF m # 0 THEN SubSeq(s, i, m - 1) ELSE SearchFrom(s, i + 1)

\* re.search: the match at the leftmost index at which the pattern matches
SearchFrom(s, i) == IF i > Len(s) THEN <<>> ELSE Found(s, i, MatchAt(s, i))

\* match.group(), or <<>> when there is no match
re_search(s) == SearchFrom(s, 1)

\* line 58
MatchValue(tok) == IF tok # <<>> THEN ParseFloat(tok) ELSE None

extract_irr(v) ==
  IF isna(v) \/ v = Str(<<"-">>) THEN None ELSE MatchValue(re_search(ToStr(v)))

(***************************************************************************)
(* The spreadsheet and the DataFrame                                       *)
(*                                                                         *)
(* A sheet is a header row and data rows; a DataFrame is its column names  *)
(* and its rows, each row a sequence of cells in column order.  A column   *)
(* name is a str whose characters are written as one word, with blanks     *)
(* around it where the header is padded.  The Objective and Benefits       *)
(* columns are carried to hover texts only and are left out.               *)
(***************************************************************************)
Range(s) == {s[i] : i \in DOMAIN s}

\* column_map, the Thai names transliterated
column_map ==
  [h \in {<<"khrongkan">>, <<"ngoppraman">>, <<"rongngan">>, <<"praphet">>,
          <<"%IRR/NPV/PB">>} |->
     CASE h = <<"khrongkan">> -> <<"Project">>
       [] h = <<"ngoppraman">> -> <<"Budget">>
       [] h = <<"rongngan">> -> <<"Factory">>
       [] h = <<"praphet">> -> <<"Category">>
       [] h = <<"%IRR/NPV/PB">> -> <<"Financial_Data">>]

\* df.columns.str.strip()
strip_columns(df) == [df EXCEPT !.columns = [i \in DOMAIN df.columns |-> strip(df.columns[i])]]

\* df.rename(columns=column_map): names outside the map stay
rename(df) ==
  [df EXCEPT !.columns =
     [i \in DOMAIN df.columns |->
        IF df.columns[i] \in DOMAIN column_map THEN column_map[df.columns[i]]
        ELSE df.columns[i]]]

HasColumn(df, name) == name \in Range(df.columns)

ColumnIndex(df, name) == CHOOSE i \in DOMAIN df.columns : df.columns[i] = name

\* df[name] as a sequence of cells, row by row
Column(df, name) == [r \in DOMAIN df.rows |-> df.rows[r][ColumnIndex(df, name)]]

\* df[name] = series: an existing column is replaced, a new one is appended
SetColumn(df, name, series) ==
  IF HasColumn(df, name)
    THEN [df EXCEPT !.rows =
            [r \in DOMAIN df.rows |->
               [df.rows[r] EXCEPT ![ColumnIndex(df, name)] = series[r]]]]
    ELSE [columns |-> Append(df.columns, name),
          rows |-> [r \in DOMAIN df.rows |-> Append(df.rows[r], series[r])]]

\* one cell of a row by column name
Cell(df, r, name) == df.rows[r][ColumnIndex(df, name)]

\* df[mask]: the rows whose mask entry is true, in order
RECURSIVE KeepRows(_, _, _)
KeepRows(rows, mask, i) ==
  IF i > Len(rows) THEN <<>>
  ELSE (IF mask[i] THEN <<rows[i]>> ELSE <<>>) \o KeepRows(rows, mask, i + 1)

BooleanIndex(df, mask) == [df EXCEPT !.rows = KeepRows(df.rows, mask, 1)]

\* df.empty
empty(df) == Len(df.rows) = 0

(***************************************************************************)
(* load_data                                                               *)
(***************************************************************************)
\* one element drawn on the page
El(type, name, data) == [type |-> type, name |-> name, data |-> data]

Ok(df) == [kind |-> "ok", df |-> df]
Raise(e) == [kind |-> "raise", e |-> e]

\* pd.read_excel("CapEx_2026.xlsx")
read_excel(file) ==
  CASE file.kind = "missing" -> Raise(<<"FileNotFoundError">>)
    [] file.kind = "malformed" -> Raise(<<"BadZipFile">>)
    [] file.kind = "sheet" -> Ok([columns |-> file.header, rows |-> file.rows])

\* .astype(str).str.strip() on one cell
astype_str_strip(v) == Str(strip(ToStr(v)))

\* df[name] = df[name].astype(str).str.strip()
strip_column(df, name) ==
  SetColumn(df, name, [r \in DOMAIN df.rows |-> astype_str_strip(Cell(df, r, name))])

budget_cell(v) == fillna0(to_numeric(v))

\* lines 60-61: apply(extract_irr), then to_numeric(errors='coerce')
irr_cell(v) == to_numeric(extract_irr(v))

\* lines 60-62
derive_irr(df) ==
  IF ~HasColumn(df, <<"Financial_Data">>) THEN Raise(<<"KeyError", "Financial_Data">>)
  ELSE Ok(SetColumn(df, <<"IRR_Value">>,
                    [r \in DOMAIN df.rows |-> irr_cell(Cell(df, r, <<"Financial_Data">>))]))

\* line 53
coerce_budget(df) ==
  IF ~HasColumn(df, <<"Budget">>) THEN Raise(<<"KeyError", "Budget">>)
  ELSE derive_irr(SetColumn(df, <<"Budget">>,
                         [r \in DOMAIN df.rows |-> budget_cell(Cell(df, r, <<"Budget">>))]))

\* line 51
clean_category(df) ==
  IF ~HasColumn(df, <<"Category">>) THEN Raise(<<"KeyError", "Category">>)
  ELSE coerce_budget(strip_column(df, <<"Category">>))

\* line 50
clean_factory(df) ==
  IF ~HasColumn(df, <<"Factory">>) THEN Raise(<<"KeyError", "Factory">>)
  ELSE clean_category(strip_column(df, <<"Factory">>))

\* lines 41-47
normalize(rd) == IF rd.kind = "raise" THEN rd ELSE clean_factory(rename(strip_columns(rd.df)))

\* the try block of load_data, lines 40-62; df[name] of an absent column
\* raises KeyError(name), and the frame built so far is dropped
load_data_try(file) == normalize(read_excel(file))


\* a variant whose except clause draws nothing
returned_silently(res) ==
  IF res.kind = "ok"
    THEN [value |-> res.df, elements |-> <<>>]
    ELSE [value |-> None, elements |-> <<>>]

\* One uncached call of load_data: its return value and the elements it
\* draws (the except clause, lines 63-65, draws st.error and returns None).
returned(res) ==
  IF res.kind = "ok"
    THEN [value |-> res.df, elements |-> <<>>]
    ELSE [value |-> None, elements |-> <<El("error", <<"Error: ">> \o res.e, Idle)>>]

load_data_call(file) == returned(load_data_try(file))


\* a variant without the cache: every call reads the file
load_data_uncached(store, file) == load_data_call(file)

\* @st.cache_data: the first call runs the function and stores its return
\* value and the elements it drew; every later call returns the stored
\* value and replays the stored elements without running the function.
load_data(store, file) ==
  IF store = Idle THEN load_data_call(file) ELSE store

(***************************************************************************)
(* Series and DataFrame operations of the script                           *)
(***************************************************************************)
RECURSIVE unique(_)
\* Series.unique(): the distinct values in order of first appearance
unique(s) ==
  IF s = <<>> THEN <<>>
  ELSE LET u == unique(SubSeq(s, 1, Len(s) - 1))
       IN  IF s[Len(s)] \in Range(u) THEN u ELSE Append(u, s[Len(s)])

RECURSIVE InsertSorted(_, _)
InsertSorted(s, x) ==
  IF s = <<>> THEN <<x>>
  ELSE IF StrLess(x, Head(s)) THEN <<x>> \o s
  ELSE <<Head(s)>> \o InsertSorted(Tail(s), x)

RECURSIVE sorted(_)
\* sorted(list of str)
sorted(s) == IF s = <<>> THEN <<>> ELSE InsertSorted(sorted(SubSeq(s, 1, Len(s) - 1)), s[Len(s)])

\* the text of each cell of a str column
Texts(series) == [i \in DOMAIN series |-> series[i].s]

nan_text == <<"n", "a", "n">>


\* a variant that keeps the text 'nan' selectable
AnyText(f) == TRUE

NotNanText(f) == f # nan_text

\* lines 88 and 93: sorted([f for f in df[name].unique() if f != 'nan'])
selectable(df, name) == sorted(SelectSeq(unique(Texts(Column(df, name))), NotNanText))

\* the widget key f"f_{f}" / f"c_{c}"
widget_key(prefix, option) == prefix \o <<"_">> \o option
factory_key(f) == widget_key(<<"f">>, f)
category_key(c) == widget_key(<<"c">>, c)

\* st.checkbox(label, value=True, key=key): ticked unless the session holds
\* the key as unticked
checkbox(key, off) == key \notin off

\* lines 89 and 94: the options whose checkbox is ticked
selected(options, prefix, off) ==
  LET Ticked(o) == checkbox(widget_key(prefix, o), off) IN SelectSeq(options, Ticked)

\* Series.isin(values) on one cell
isin(v, values) == v.s \in Range(values)


\* a variant that keeps a row when either column matches
df_filtered_either(df, selF, selC) ==
  BooleanIndex(df,
    [r \in DOMAIN df.rows |->
       isin(Cell(df, r, <<"Factory">>), selF) \/ isin(Cell(df, r, <<"Category">>), selC)])

\* line 96
df_filtered(df, selF, selC) ==
  BooleanIndex(df,
    [r \in DOMAIN df.rows |->
       isin(Cell(df, r, <<"Factory">>), selF) /\ isin(Cell(df, r, <<"Category">>), selC)])

RECURSIVE sum(_)
\* Series.sum() of a column without NaN (0 when empty)
sum(series) == IF series = <<>> THEN 0 ELSE sum(SubSeq(series, 1, Len(series) - 1)) + series[Len(series)].n


\* a variant that counts a missing value as 0
dropna_as_zero(series) == [i \in DOMAIN series |-> fillna0(series[i])]

\* Series.dropna()
dropna(series) == SelectSeq(series, notnull)

MeanOf(kept) ==
  IF kept = <<>> THEN NaN ELSE [kind |-> "num", n |-> sum(kept), per |-> Len(kept)]

\* Series.mean(): NaN values are skipped; NaN when nothing is left.  The
\* quotient total / count is kept as the pair (n, per).
mean(series) == MeanOf(dropna(series))

\* the sum of column v over the rows whose column k holds key
GroupTotal(rows, k, v, key) ==
  LET InGroup(r) == r[k].s = key
  IN  sum([i \in DOMAIN SelectSeq(rows, InGroup) |-> SelectSeq(rows, InGroup)[i][v]])

GroupTotals(rows, k, v, keys) ==
  [g \in DOMAIN keys |-> [key |-> keys[g], total |-> GroupTotal(rows, k, v, keys[g])]]


\* a variant that leaves the group keys in order of first appearance
groupby_sum_unsorted(df, key, value) ==
  GroupTotals(df.rows, ColumnIndex(df, key), ColumnIndex(df, value),
              unique(Texts(Column(df, key))))

\* df.groupby(key)[value].sum(): one entry per distinct key, the keys in
\* sorted order (groupby sorts its group keys)
groupby_sum(df, key, value) ==
  GroupTotals(df.rows, ColumnIndex(df, key), ColumnIndex(df, value),
              sorted(unique(Texts(Column(df, key)))))

RECURSIVE ArgMaxFrom(_, _, _)
ArgMaxFrom(g, i, best) ==
  IF i > Len(g) THEN best
  ELSE ArgMaxFrom(g, i + 1, IF g[i].total > g[best].total THEN i ELSE best)

\* Series.idxmax(): the label of the first occurrence of the maximum
idxmax(g) == g[ArgMaxFrom(g, 2, 1)].key

RECURSIVE InsertByBudget(_, _, _)
InsertByBudget(rows, row, b) ==
  IF rows = <<>> THEN <<row>>
  ELSE IF row[b].n > Head(rows)[b].n THEN <<row>> \o rows
  ELSE <<Head(rows)>> \o InsertByBudget(Tail(rows), row, b)

RECURSIVE SortRowsDesc(_, _)
SortRowsDesc(rows, b) ==
  IF rows = <<>> THEN <<>>
  ELSE InsertByBudget(SortRowsDesc(SubSeq(rows, 1, Len(rows) - 1), b), rows[Len(rows)], b)

\* df.sort_values("Budget", ascending=False): a new frame, equal budgets
\* keeping their order
sort_values_desc(df) == [df EXCEPT !.rows = SortRowsDesc(df.rows, ColumnIndex(df, <<"Budget">>))]

\* df.dropna(subset=['IRR_Value']): a new frame
dropna_irr(df) ==
  BooleanIndex(df, [r \in DOMAIN df.rows |-> notnull(Cell(df, r, <<"IRR_Value">>))])

\* a sequence without its k-th element
Without(s, k) == [i \in 1..(Len(s) - 1) |-> IF i < k THEN s[i] ELSE s[i + 1]]

Dash(v) == IF isna(v) THEN Str(<<"-">>) ELSE v

DropFill(df, k) ==
  [columns |-> Without(df.columns, k),
   rows |-> [r \in DOMAIN df.rows |-> [i \in 1..(Len(df.columns) - 1) |-> Dash(Without(df.rows[r], k)[i])]]]

\* df.drop(columns=['IRR_Value']).fillna('-'): a new frame
inventory(df) == DropFill(df, ColumnIndex(df, <<"IRR_Value">>))

\* the columns a figure reads, row by row
Project(df, names) ==
  [r \in DOMAIN df.rows |-> [i \in DOMAIN names |-> Cell(df, r, names[i])]]

(***************************************************************************)
(* The script, lines 67-177: one run draws the page from top to bottom     *)
(***************************************************************************)
\* line 104
avg_tile(avg_irr) ==
  El("metric", "Avg. IRR (%)", IF notnull(avg_irr) THEN avg_irr ELSE [kind |-> "text", s |-> "N/A"])

\* lines 107-108
top_tile(top_spender_group) ==
  IF top_spender_group # <<>>
    THEN <<El("metric", "Top Spender", idxmax(top_spender_group))>>
    ELSE <<>>

\* lines 100-108: the metric tiles
metrics(flt) ==
  << El("metric", "Total Investment", Num(sum(Column(flt, <<"Budget">>)))),
     El("metric", "Project Count", Len(flt.rows)),
     avg_tile(mean(Column(flt, <<"IRR_Value">>))) >>
  \o top_tile(groupby_sum(flt, <<"Factory">>, <<"Budget">>))


\* a variant that draws the scatter whatever the frame holds
scatter_always(df_scatter) ==
  <<El("plotly_chart", "fig_scatter",
       Project(df_scatter, << <<"Budget">>, <<"IRR_Value">>, <<"Factory">>, <<"Project">> >>))>>

\* lines 153-159: the scatter is drawn only when some row has an IRR_Value
scatter(df_scatter) ==
  IF ~empty(df_scatter)
    THEN <<El("plotly_chart", "fig_scatter",
              Project(df_scatter, << <<"Budget">>, <<"IRR_Value">>, <<"Factory">>,
                                     <<"Project">> >>))>>
    ELSE <<>>

\* lines 113-171: the four figures
charts(flt) ==
  << El("write", "**Budget by Project**", Idle),
     El("plotly_chart", "fig_bar",
        Project(sort_values_desc(flt),
                << <<"Project">>, <<"Budget">>, <<"Category">>, <<"Factory">> >>)),
     El("write", "**Budget Distribution**", Idle),
     El("plotly_chart", "fig_pie", Project(flt, << <<"Factory">>, <<"Budget">> >>)),
     El("write", "**Budget vs IRR Matrix**", Idle) >>
  \o scatter(dropna_irr(flt))
  \o << El("write", "**Budget by Category**", Idle),
        El("plotly_chart", "fig_cat", groupby_sum(flt, <<"Category">>, <<"Budget">>)) >>

Checkboxes(options, prefix, off) ==
  [i \in DOMAIN options |->
     El("checkbox", widget_key(prefix, options[i]), checkbox(widget_key(prefix, options[i]), off))]

\* lines 82-94: one checkbox per selectable value
controls(factories, categories, off) ==
  Checkboxes(factories, <<"f">>, off) \o Checkboxes(categories, <<"c">>, off)

\* lines 98-177
results(flt) ==
  IF ~empty(flt)
    THEN metrics(flt) \o <<El("markdown", "---", Idle)>> \o charts(flt)
         \o <<El("dataframe", "Project Inventory Table", inventory(flt))>>
    ELSE <<El("warning", "No data matches selected filters.", Idle)>>

\* lines 70-177, the page under "if df is not None", given the options
\* of lines 88 and 93
options_page(df, factories, categories, off) ==
  [filtered |-> df_filtered(df, selected(factories, <<"f">>, off),
                            selected(categories, <<"c">>, off)),
   head |-> << El("title", "CapEx 2026 Investment Executive Dashboard", Idle),
               El("markdown", "update-box", Idle) >>
            \o controls(factories, categories, off)]

dashboard(df, off) ==
  options_page(df, selectable(df, <<"Factory">>), selectable(df, <<"Category">>), off)

\* lines 96-177: the results under the controls
with_results(d) == [filtered |-> d.filtered, page |-> d.head \o results(d.filtered)]

drawn(call, d) ==
  [cache |-> call,
   filtered |-> d.filtered,
   page |-> <<El("markdown", "style", Idle)>> \o call.elements \o d.page]

\* lines 67-69: the page drawn once load_data has returned
page_of(call, off) ==
  drawn(call, IF call.value # None THEN with_results(dashboard(call.value, off))
              ELSE [filtered |-> Idle, page |-> <<>>])

\* One run of the script with the session's unticked keys `off`: the cache
\* after the call of load_data, the script's df_filtered and the page.
script(store, file, off) == page_of(load_data(store, file), off)

\* the keys of the checkboxes on a page
WidgetKeys(page) == {page[i].name : i \in {j \in DOMAIN page : page[j].type = "checkbox"}}

(***************************************************************************)
(* The files the dashboard may be started on                               *)
(***************************************************************************)
Header ==
  << <<"khrongkan">>, <<" ", "ngoppraman">>, <<"rongngan", " ">>, <<"praphet">>,
     <<" ", "%IRR/NPV/PB", " ">> >>

FactoryCells == {Str(<<"A">>), Str(<<"B", " ">>)}
CategoryCells == {Str(<<"I", "T">>), Str(<<" ", "H", "R">>)}

\* (Factory, Category): two factories and two categories, padded and not
PlaceCells ==
  { <<Str(<<"B", " ">>), Str(<<"I", "T">>)>>,
    <<Str(<<"A">>), Str(<<" ", "H", "R">>)>>,
    <<Str(<<"A">>), Str(<<"I", "T">>)>> }

\* (Factory, Category) with a missing value in one of the two columns
BlankPlaceCells ==
  { <<NaN, Str(<<" ", "H", "R">>)>>,
    <<Str(<<"B", " ">>), NaN>> }

\* (Budget, Financial_Data): a number, a numeric text, a negative number,
\* a text that is no number; a percentage, the placeholder, a signed
\* decimal, a blank
MoneyCells ==
  { <<Num(Scale), Str(<<"1", "2", ".", "5", "%">>)>>,
    <<Str(<<"2">>), Str(<<"-">>)>>,
    <<Num(-Scale), Str(<<"-", "3", ".", "2">>)>>,
    <<Str(<<"x">>), NaN>> }

\* (Budget, Financial_Data) of the rows with a blank place
BlankMoneyCells == { <<Num(Scale), Str(<<"1", "2", ".", "5", "%">>)>> }

SheetRow(i, p, m) == <<Str(NatDigits(i)), m[1], p[1], p[2], m[2]>>

\* the i-th data row of a sheet
RowCells(i) ==
  {SheetRow(i, p, m) : p \in PlaceCells, m \in MoneyCells}
    \cup {SheetRow(i, p, m) : p \in BlankPlaceCells, m \in BlankMoneyCells}

RECURSIVE RowsOfLen(_)
RowsOfLen(n) ==
  IF n = 0 THEN {<<>>}
  ELSE {Append(rows, r) : rows \in RowsOfLen(n - 1), r \in RowCells(n)}

Sheet(header, rows) == [kind |-> "sheet", header |-> header, rows |-> rows]

\* a sheet without its k-th column
WithoutColumn(f, k) ==
  Sheet(Without(f.header, k), [r \in DOMAIN f.rows |-> Without(f.rows[r], k)])

GoodFiles == {Sheet(Header, rows) : rows \in UNION {RowsOfLen(n) : n \in 0..MaxRows}}

\* a missing file, a file that is no workbook, and one-row sheets that lack
\* one of the columns load_data reads
BadFiles ==
  {[kind |-> "missing"], [kind |-> "malformed"]}
    \cup {WithoutColumn(Sheet(Header, rows), k) : rows \in {<<r>> : r \in RowCells(1)}, k \in 2..5}

Files == GoodFiles \cup BadFiles

(***************************************************************************)
(* The dashboard as a state machine                                        *)
(***************************************************************************)
Init ==
  /\ pc = "start"
  /\ xlsx \in Files
  /\ cache = Idle
  /\ unticked = {}
  /\ screen = <<>>
  /\ view = Idle
  /\ origin = Idle
  /\ val = Idle /\ irr = Idle

\* the state a run leaves: the session keeps the state of the widgets the
\* run drew only; origin records the file and the table of the first run
Shown(run, off) ==
  /\ pc' = "shown"
  /\ cache' = run.cache
  /\ screen' = run.page
  /\ view' = run.filtered
  /\ unticked' = off \cap WidgetKeys(run.page)
  /\ origin' = IF origin = Idle THEN [file |-> xlsx, value |-> run.cache.value] ELSE origin
  /\ UNCHANGED <<xlsx, val, irr>>

\* the script runs with the session's unticked keys `off`
Rerun(off) == Shown(script(cache, xlsx, off), off)

\* the page is opened, or reloaded in the same session
Run ==
  /\ pc \in {"start", "shown"}
  /\ Rerun(unticked)

\* the viewer clicks a checkbox: its state flips and the script reruns
Toggle(key) ==
  /\ pc = "shown"
  /\ key \in WidgetKeys(screen)
  /\ Rerun(IF key \in unticked THEN unticked \ {key} ELSE unticked \cup {key})

\* the file is removed from the disk while the process runs
EditFile ==
  /\ pc = "shown"
  /\ xlsx.kind = "sheet"
  /\ xlsx' = [kind |-> "missing"]
  /\ UNCHANGED <<pc, cache, unticked, screen, view, origin, val, irr>>

AllKeys ==
  {factory_key(strip(f.s)) : f \in FactoryCells} \cup {category_key(strip(c.s)) : c \in CategoryCells}

Next == Run \/ (\E key \in AllKeys : Toggle(key)) \/ EditFile

Spec == Init /\ [][Next]_vars

(***************************************************************************)
(* Cell-level specification: one Financial_Data cell through extract_irr   *)
(***************************************************************************)
CellChars == {"-", "+", ".", "2", "3", "%"}

RECURSIVE StringsUpTo(_)
StringsUpTo(n) ==
  IF n = 0 THEN {<<>>}
  ELSE LET S == StringsUpTo(n - 1)
       IN  S \cup {Append(s, c) : s \in {t \in S : Len(t) = n - 1}, c \in CellChars}

FinancialCells ==
  {NaN} \cup {Str(s) : s \in StringsUpTo(MaxLen)}
        \cup {Num(n) : n \in {-3 * Scale, 2 * Scale, 0, (5 * Scale) \div 2, -(Scale \div 2)}}

InitCell ==
  /\ pc = "cell"
  /\ val \in FinancialCells
  /\ irr = Idle
  /\ xlsx = Idle /\ cache = Idle /\ unticked = {} /\ screen = <<>>
  /\ view = Idle /\ origin = Idle

\* df['Financial_Data'].apply(extract_irr) on one cell
ApplyExtract ==
  /\ pc = "cell"
  /\ pc' = "extracted"
  /\ irr' = extract_irr(val)
  /\ UNCHANGED <<val, xlsx, cache, unticked, screen, view, origin>>

SpecCell == InitCell /\ [][ApplyExtract]_vars

(***************************************************************************)
(* Reading the state                                                       *)
(***************************************************************************)
\* the last run loaded a table
Loaded == pc = "shown" /\ cache.value # None

Table == cache.value

Shows(type, name) ==
  \E i \in DOMAIN screen : screen[i].type = type /\ screen[i].name = name

ShowsType(type) == \E i \in DOMAIN screen : screen[i].type = type

CountType(type) == Cardinality({i \in DOMAIN screen : screen[i].type = type})

\* the value of the metric tile with this label
Tile(label) ==
  screen[CHOOSE i \in DOMAIN screen : screen[i].type = "metric" /\ screen[i].name = label].data

\* the keys of the checkboxes shown ticked
TickedKeys ==
  {screen[i].name : i \in {j \in DOMAIN screen : screen[j].type = "checkbox" /\ screen[j].data}}

FactoryOf(row) == row[3].s
CategoryOf(row) == row[4].s
BudgetOf(row) == row[2].n
IrrOf(row) == row[6]

ViewRows == view.rows

ViewIsEmpty == view.rows = <<>>

\* the rows of the view that have an IRR_Value
WithIrr == {r \in DOMAIN view.rows : IrrOf(view.rows[r]).kind = "num"}

RECURSIVE FactoryBudget(_, _)
\* the budget of factory f summed over rows
FactoryBudget(rows, f) ==
  IF rows = <<>> THEN 0
  ELSE (IF FactoryOf(Head(rows)) = f THEN BudgetOf(Head(rows)) ELSE 0)
       + FactoryBudget(Tail(rows), f)

RECURSIVE IrrTotal(_)
\* IRR_Value summed over the rows that have one
IrrTotal(rows) ==
  IF rows = <<>> THEN 0
  ELSE (IF IrrOf(Head(rows)).kind = "num" THEN IrrOf(Head(rows)).n ELSE 0)
       + IrrTotal(Tail(rows))

RECURSIVE BudgetTotal(_)
BudgetTotal(rows) ==
  IF rows = <<>> THEN 0 ELSE BudgetOf(Head(rows)) + BudgetTotal(Tail(rows))

FactoriesOf(rows) == {FactoryOf(rows[r]) : r \in DOMAIN rows}

\* f has the largest summed budget of the view
IsTop(f) ==
  /\ f \in FactoriesOf(view.rows)
  /\ \A g \in FactoriesOf(view.rows) :
       FactoryBudget(view.rows, g) <= FactoryBudget(view.rows, f)

\* the index of the first row of factory f in the view
FirstRow(f) ==
  CHOOSE r \in DOMAIN view.rows :
    /\ FactoryOf(view.rows[r]) = f
    /\ \A q \in 1..(r - 1) : FactoryOf(view.rows[q]) # f

(***************************************************************************)
(* C1  Budget after load_data                                              *)
(***************************************************************************)
\* C1: after load_data has normalised the table, every row's Budget is a
\* number >= 0, whatever the raw Budget cell was.
BudgetNonNegative ==
  Loaded =>
    \A r \in DOMAIN Table.rows :
      /\ Cell(Table, r, <<"Budget">>).kind = "num"
      /\ Cell(Table, r, <<"Budget">>).n >= 0

(***************************************************************************)
(* C2  extract_irr                                                         *)
(***************************************************************************)
\* a token as the claim reads it: an optional sign followed by a decimal or
\* an integer, the sign belonging to either
UnsignedEnd(s, j) ==
  IF DecimalFrac(s, DigitRunEnd(s, j)) # 0
    THEN DecimalFrac(s, DigitRunEnd(s, j))
    ELSE MatchInteger(s, j)

SignedEnd(s, i) ==
  IF i <= Len(s) /\ s[i] \in {"-", "+"} /\ UnsignedEnd(s, i + 1) # 0
    THEN UnsignedEnd(s, i + 1)
    ELSE UnsignedEnd(s, i)

RECURSIVE SignedSearch(_, _)
SignedSearch(s, i) ==
  IF i > Len(s) THEN <<>>
  ELSE IF SignedEnd(s, i) # 0 THEN SubSeq(s, i, SignedEnd(s, i) - 1)
  ELSE SignedSearch(s, i + 1)

SignedTokenValue(v) ==
  IF v.kind = "nan" \/ v = Str(<<"-">>) THEN None
  ELSE IF SignedSearch(ToStr(v), 1) = <<>> THEN None
  ELSE ParseFloat(SignedSearch(ToStr(v), 1))

\* C2: extract_irr returns null for a missing cell, the placeholder "-" and
\* a cell without a numeric token, and otherwise the value of the first
\* token, an optional sign followed by an integer or a decimal, the sign
\* kept for integers as for decimals.
ExtractIrrKeepsSign == pc = "extracted" => irr = SignedTokenValue(val)

(***************************************************************************)
(* C3  every checkbox ticked                                               *)
(***************************************************************************)
Named(row) == FactoryOf(row) # nan_text /\ CategoryOf(row) # nan_text

\* C3 as stated: with every checkbox ticked the filtered result equals the
\* full normalised table.
AllTickedIsIdentity == (Loaded /\ unticked = {}) => view = Table

\* C3 as amended: with every checkbox ticked the filtered result is the
\* normalised table without the rows whose Factory or Category is the
\* missing-value text 'nan', in the table's order.
AllTickedKeepsNamedRows ==
  (Loaded /\ unticked = {}) =>
    /\ view.columns = Table.columns
    /\ view.rows = SelectSeq(Table.rows, Named)

\* every checkbox ticked, and the result is not empty and not the table
AllTickedDropsNanRow ==
  /\ Loaded /\ unticked = {}
  /\ view.rows # <<>>
  /\ Len(view.rows) < Len(Table.rows)

(***************************************************************************)
(* C4  the filter is conjunctive                                           *)
(***************************************************************************)
InBoth(row) ==
  /\ factory_key(FactoryOf(row)) \in TickedKeys
  /\ category_key(CategoryOf(row)) \in TickedKeys

\* C4: the filtered result is exactly the rows whose Factory is ticked and
\* whose Category is ticked; with nothing ticked it is empty.
FilterIsConjunctive ==
  Loaded =>
    /\ view.rows = SelectSeq(Table.rows, InBoth)
    /\ (TickedKeys = {} => view.rows = <<>>)

\* a row is left out for its Category alone while other rows are kept
FilterExcludesOnCategory ==
  /\ Loaded
  /\ view.rows # <<>>
  /\ \E r \in DOMAIN Table.rows :
       /\ factory_key(FactoryOf(Table.rows[r])) \in TickedKeys
       /\ category_key(CategoryOf(Table.rows[r])) \in unticked

(***************************************************************************)
(* C5  total budget and growing selections                                 *)
(***************************************************************************)
\* C5: a selection contained in the current one never has a larger total
\* budget (ticking more boxes never lowers Total Investment).
TotalBudgetMonotone ==
  Loaded =>
    \A off \in SUBSET WidgetKeys(screen) :
      unticked \subseteq off =>
        BudgetTotal(dashboard(Table, off).filtered.rows) <= BudgetTotal(view.rows)

(***************************************************************************)
(* C6  Top Spender                                                         *)
(***************************************************************************)
\* C6 as stated: Top Spender has the largest summed budget and, among the
\* factories that tie, the earliest first row.
TopSpenderFirstEncountered ==
  (Loaded /\ ~ViewIsEmpty) =>
    /\ Shows("metric", "Top Spender")
    /\ IsTop(Tile("Top Spender"))
    /\ \A g \in FactoriesOf(view.rows) :
         IsTop(g) => FirstRow(Tile("Top Spender")) <= FirstRow(g)

\* C6 as amended: Top Spender has the largest summed budget and, among the
\* factories that tie, is the first in sorted order of the names; with one
\* Factory in the view it is that Factory.
TopSpenderSortedFirst ==
  (Loaded /\ ~ViewIsEmpty) =>
    /\ Shows("metric", "Top Spender")
    /\ IsTop(Tile("Top Spender"))
    /\ \A g \in FactoriesOf(view.rows) :
         (IsTop(g) /\ g # Tile("Top Spender")) => StrLess(Tile("Top Spender"), g)
    /\ \A f \in FactoriesOf(view.rows) :
         FactoriesOf(view.rows) = {f} => Tile("Top Spender") = f

\* two factories tie and the one shown is not the one met first
TopSpenderTie ==
  /\ Loaded /\ ~ViewIsEmpty
  /\ \E g \in FactoriesOf(view.rows) :
       /\ g # Tile("Top Spender")
       /\ IsTop(g)
       /\ FirstRow(g) < FirstRow(Tile("Top Spender"))

(***************************************************************************)
(* C7  average IRR                                                         *)
(***************************************************************************)
\* C7: the average is the sum of the IRR_Values present over their number,
\* rows without one counting in neither; with none present the tile reads
\* "N/A".
AverageOverPresentOnly ==
  (Loaded /\ ~ViewIsEmpty) =>
    /\ Shows("metric", "Avg. IRR (%)")
    /\ IF WithIrr = {}
         THEN Tile("Avg. IRR (%)") = [kind |-> "text", s |-> "N/A"]
         ELSE /\ Tile("Avg. IRR (%)").kind = "num"
              /\ Tile("Avg. IRR (%)").n = IrrTotal(view.rows)
              /\ Tile("Avg. IRR (%)").per = Cardinality(WithIrr)

\* the view holds a row with an IRR_Value and a row without
AverageSkipsNullRow ==
  /\ Loaded
  /\ WithIrr # {}
  /\ WithIrr # DOMAIN view.rows

(***************************************************************************)
(* C8  load failure                                                        *)
(***************************************************************************)
HeaderHas(f, name) ==
  \E i \in DOMAIN f.header :
    (IF strip(f.header[i]) \in DOMAIN column_map
       THEN column_map[strip(f.header[i])]
       ELSE strip(f.header[i])) = name

Required == {<<"Factory">>, <<"Category">>, <<"Budget">>, <<"Financial_Data">>}

\* a step of load_data fails on this file
Fails(f) ==
  \/ f.kind \in {"missing", "malformed"}
  \/ f.kind = "sheet" /\ \E name \in Required : ~HeaderHas(f, name)

ResultTypes == {"checkbox", "metric", "plotly_chart", "dataframe", "warning"}

\* C8: when a step of load_data fails, it returns None and no table, one
\* error message is shown, and no control, metric, chart, table or warning.
LoadFailureShowsOnlyError ==
  (pc = "shown" /\ Fails(origin.file)) =>
    /\ cache.value = None
    /\ view = Idle
    /\ CountType("error") = 1
    /\ \A type \in ResultTypes : ~ShowsType(type)

\* the load failed at its last step, the Financial_Data column
LoadFailsOnLastColumn ==
  /\ pc = "shown"
  /\ origin.file.kind = "sheet"
  /\ ~HeaderHas(origin.file, <<"Financial_Data">>)
  /\ \A name \in Required \ {<<"Financial_Data">>} : HeaderHas(origin.file, name)
  /\ origin.file.rows # <<>>

(***************************************************************************)
(* C9  the two states of the view                                          *)
(***************************************************************************)
Tiles == {"Total Investment", "Project Count", "Avg. IRR (%)", "Top Spender"}

OnlyNotice ==
  /\ Shows("warning", "No data matches selected filters.")
  /\ ~ShowsType("metric") /\ ~ShowsType("plotly_chart") /\ ~ShowsType("dataframe")

AllButScatter ==
  /\ ~ShowsType("warning")
  /\ \A label \in Tiles : Shows("metric", label)
  /\ \A fig \in {"fig_bar", "fig_pie", "fig_cat"} : Shows("plotly_chart", fig)
  /\ ShowsType("dataframe")

ViewFromOriginalTable ==
  (pc = "shown" /\ origin.value # None) =>
    /\ cache.value = origin.value
    /\ view = page_of([value |-> origin.value, elements |-> <<>>], unticked).filtered
    /\ screen = page_of([value |-> origin.value, elements |-> <<>>], unticked).page

\* boxes were unticked and the file has since gone from the disk
ToggledWithFileGone ==
  /\ pc = "shown" /\ origin.value # None
  /\ xlsx.kind = "missing"
  /\ unticked # {}
  /\ ~ViewIsEmpty

====
